---- MODULE Spec2Model ----
(***************************************************************************)
(* A model of the Teltonika FMB920 TCP reader: the listener and the        *)
(* per-connection session of teltonika-FMB920.py (TeltonikaServer), with   *)
(* its frame reader and its AVL / IO codec at the level of bytes; and of   *)
(* the package teltonika, TeltonikaConnection.receive_packet and           *)
(* TeltonikaDecoder.decode_io.                                             *)
(*                                                                         *)
(* Bytes are the integers 0..255 and a buffer is a sequence of bytes.      *)
(* Python indexes from 0 and TLA+ from 1: At and Slice take Python's       *)
(* offsets.  An unsigned integer wider than 31 bits (a '!Q' timestamp or   *)
(* IO value) is kept as its base-256 numeral without leading zeros, since  *)
(* TLC's integers end at 2^31 - 1.                                         *)
(***************************************************************************)
EXTENDS Integers, Sequences, FiniteSets, TLC

VARIABLES
    running,      \* TeltonikaServer.running
    lsock,        \* the listening socket self.sock: "none", "open", "closed"
    lpc,          \* where start() is: "init", "bound", "check" (the while test),
                  \* "accept", "except", "done", or "failed" (bind raised)
    known_imeis,  \* TeltonikaServer.known_imeis
    pc,           \* pc[s]: where handle_client of connection s is
    sock,         \* sock[s]: client_socket of connection s, "open" or "closed"
    wire,         \* wire[s]: bytes the peer of s has sent and s has not read
    peer,         \* peer[s]: "open", or "closed" once the peer has shut down
    input,        \* input[s]: every byte the peer of s sends, read or not
    need,         \* need[s]: imei_length, then data_length
    header,       \* header[s]: the last whole header receive_avl_data read
    imei,         \* imei[s]: the identity handle_client holds, NoImei before
    data,         \* data[s]: the payload receive_avl_data has read
    avl,          \* avl[s]: what receive_avl_data returned (avl_data)
    sent,         \* sent[s]: what the session has sent, one entry per send
    decoded,      \* decoded[s]: the packets parse_avl_data returned, in order
    nrecv,        \* nrecv[s]: the number of recv calls made on the socket
    ioIn,         \* the IO block whose bytes are handed to parse_io_element
    ioOut,        \* what parse_io_element returned for ioIn
    conn,         \* bytes sent to a TeltonikaConnection that it has not read
    packets       \* what its receive_packet calls returned or raised, in order

vars == << running, lsock, lpc, known_imeis, pc, sock, wire, peer, input, need,
           header, imei, data, avl, sent, decoded, nrecv, ioIn, ioOut, conn,
           packets >>

\* what the listener owns, what parse_io_element is applied to
listenerVars == << running, lsock, lpc >>
ioVars == << ioIn, ioOut >>

\* what a TeltonikaConnection reads and returns
connVars == << conn, packets >>

\* Python's None
None == [none |-> TRUE]

\* the session holds no identity (receive_imei returns no empty identity)
NoImei == << >>

Min(a, b) == IF a < b THEN a ELSE b

(***************************************************************************)
(* Python's bytes operations.                                              *)
(***************************************************************************)

\* data[i] exists (no IndexError)
Has(buf, i) == i >= 0 /\ i < Len(buf)

\* data[i]
At(buf, i) == buf[i + 1]

\* data[a:b], clipped to the buffer as Python clips a slice
Slice(buf, a, b) == SubSeq(buf, a + 1, Min(b, Len(buf)))

\* data[a:]
From(buf, a) == SubSeq(buf, a + 1, Len(buf))

(***************************************************************************)
(* struct.unpack / struct.pack, big-endian.                                *)
(***************************************************************************)

\* '!H' of two bytes, '!B' of one
Unpack16(b) == 256 * b[1] + b[2]

\* '!h'
UnpackI16(b) == IF b[1] >= 128 THEN 256 * (b[1] - 256) + b[2] ELSE 256 * b[1] + b[2]

\* '!I' of four bytes; TLC's integers end at 2^31 - 1, where this saturates
Unpack32(b) ==
    IF b[1] >= 128 THEN 2147483647
    ELSE ((b[1] * 256 + b[2]) * 256 + b[3]) * 256 + b[4]

\* '!i' of four bytes
UnpackI32(b) ==
    IF b[1] >= 128 THEN (((b[1] - 256) * 256 + b[2]) * 256 + b[3]) * 256 + b[4]
    ELSE ((b[1] * 256 + b[2]) * 256 + b[3]) * 256 + b[4]

\* an unsigned big-endian integer of any width, as its numeral in base 256
RECURSIVE Numeral(_)
Numeral(b) == IF b = << >> THEN << >>
              ELSE IF b[1] = 0 THEN Numeral(Tail(b)) ELSE b

\* a <= b for two numerals
RECURSIVE NumLeq(_, _)
NumLeq(a, b) ==
    IF Len(a) # Len(b) THEN Len(a) < Len(b)
    ELSE IF a = << >> THEN TRUE
    ELSE IF a[1] # b[1] THEN a[1] < b[1]
    ELSE NumLeq(Tail(a), Tail(b))

\* struct.pack("!I", n) for n < 2^24
Pack32(n) == << 0, (n \div 65536) % 256, (n \div 256) % 256, n % 256 >>

\* struct.pack("!B", n)
Pack8(n) == << n >>

(***************************************************************************)
(* The codec of teltonika-FMB920.py.                                       *)
(***************************************************************************)

\* datetime.fromtimestamp(timestamp / 1000.0) raises beyond the year 9999:
\* the last millisecond it converts, 253402300799999 (UTC), as a numeral
MaxTimestamp == << 230, 119, 210, 31, 219, 255 >>

\* datetime.fromtimestamp(timestamp / 1000.0) returns, for the 8 bytes ts
TimestampOK(ts) == NumLeq(Numeral(ts), MaxTimestamp)

\* parse_gps_element: None when any field is cut short, which the method
\* catches itself
parse_gps_element(buf) ==
    IF Len(buf) < 15 THEN None
    ELSE [ longitude  |-> UnpackI32(Slice(buf, 0, 4)),
           latitude   |-> UnpackI32(Slice(buf, 4, 8)),
           altitude   |-> UnpackI16(Slice(buf, 8, 10)),
           angle      |-> Unpack16(Slice(buf, 10, 12)),
           satellites |-> At(buf, 12),
           speed      |-> Unpack16(Slice(buf, 13, 15)) ]

\* the for loop of one tier of parse_io_element: c entries of one id byte and
\* a W-byte value; ok is FALSE when a read runs past the buffer
RECURSIVE TierEntries(_, _, _, _, _)
TierEntries(buf, offset, c, W, acc) ==
    IF c = 0 THEN [ok |-> TRUE, entries |-> acc, offset |-> offset]
    ELSE IF ~Has(buf, offset) \/ Len(Slice(buf, offset + 1, offset + 1 + W)) # W
    THEN [ok |-> FALSE, entries |-> acc, offset |-> offset]
    ELSE TierEntries(buf, offset + 1 + W, c - 1, W,
             Append(acc, [ id    |-> At(buf, offset),
                           value |-> Numeral(Slice(buf, offset + 1, offset + 1 + W)) ]))

\* a tier decoded with the 2-byte stride of the 1-byte tier, whatever its width
TierFixedStride(buf, offset, W) ==
    IF ~Has(buf, offset) THEN [ok |-> FALSE, entries |-> << >>, offset |-> offset]
    ELSE TierEntries(buf, offset + 1, At(buf, offset), 1, << >>)

\* one tier of parse_io_element: its count byte, then its entries
Tier(buf, offset, W) ==
    IF ~Has(buf, offset) THEN [ok |-> FALSE, entries |-> << >>, offset |-> offset]
    ELSE TierEntries(buf, offset + 1, At(buf, offset), W, << >>)

\* parse_io_element refusing a block whose total is not the sum of its counts
parse_io_element_strict(buf) ==
    IF ~Has(buf, 0) \/ ~Has(buf, 1) THEN [io |-> None, offset |-> 0]
    ELSE LET t1 == Tier(buf, 2, 1)
             t2 == IF t1.ok THEN Tier(buf, t1.offset, 2) ELSE t1
             t4 == IF t2.ok THEN Tier(buf, t2.offset, 4) ELSE t2
             t8 == IF t4.ok THEN Tier(buf, t4.offset, 8) ELSE t4
         IN  IF \/ ~t8.ok
                \/ At(buf, 1) # Len(t1.entries) + Len(t2.entries)
                                + Len(t4.entries) + Len(t8.entries)
             THEN [io |-> None, offset |-> 0]
             ELSE [ io |-> [ event_io_id |-> At(buf, 0),
                             total       |-> At(buf, 1),
                             elements    |-> [ b1 |-> t1.entries, b2 |-> t2.entries,
                                               b4 |-> t4.entries, b8 |-> t8.entries ] ],
                    offset |-> t8.offset ]

\* parse_io_element: (io_element, offset), or (None, 0) after any exception
parse_io_element(buf) ==
    IF ~Has(buf, 0) \/ ~Has(buf, 1) THEN [io |-> None, offset |-> 0]
    ELSE LET t1 == Tier(buf, 2, 1)
             t2 == IF t1.ok THEN Tier(buf, t1.offset, 2) ELSE t1
             t4 == IF t2.ok THEN Tier(buf, t2.offset, 4) ELSE t2
             t8 == IF t4.ok THEN Tier(buf, t4.offset, 8) ELSE t4
         IN  IF ~t8.ok THEN [io |-> None, offset |-> 0]
             ELSE [ io |-> [ event_io_id |-> At(buf, 0),
                             total       |-> At(buf, 1),
                             elements    |-> [ b1 |-> t1.entries, b2 |-> t2.entries,
                                               b4 |-> t4.entries, b8 |-> t8.entries ] ],
                    offset |-> t8.offset ]

\* the record loop of parse_avl_data: n records from offset; ok is FALSE when
\* the timestamp or the priority raises
RECURSIVE ParseRecords(_, _, _, _)
ParseRecords(buf, n, offset, acc) ==
    IF n = 0 THEN [ok |-> TRUE, records |-> acc, offset |-> offset]
    ELSE LET ts == Slice(buf, offset, offset + 8) IN
         IF Len(ts) # 8 \/ ~TimestampOK(ts) \/ ~Has(buf, offset + 8)
         THEN [ok |-> FALSE, records |-> acc, offset |-> offset]
         ELSE LET gps == parse_gps_element(Slice(buf, offset + 9, offset + 24))
                  io  == parse_io_element(From(buf, offset + 24))
              IN  ParseRecords(buf, n - 1, offset + 24 + io.offset,
                      Append(acc, [ timestamp |-> Numeral(ts),
                                    priority  |-> At(buf, offset + 8),
                                    gps       |-> gps,
                                    io        |-> io.io ]))

\* parse_avl_data: the packet, or None after any exception
parse_avl_data(buf) ==
    IF ~Has(buf, 0) \/ ~Has(buf, 1) THEN None
    ELSE LET r == ParseRecords(buf, At(buf, 1), 2, << >>) IN
         IF ~r.ok \/ ~Has(buf, r.offset) THEN None
         ELSE [ codec           |-> At(buf, 0),
                number_of_data1 |-> At(buf, 1),
                number_of_data2 |-> At(buf, r.offset),
                records         |-> r.records ]

(***************************************************************************)
(* The session: handle_client, receive_imei, receive_avl_data.             *)
(*                                                                         *)
(* wire[s] holds the bytes the peer of s has sent that the session has not *)
(* read, in flight or in the socket's buffer.  sock.recv(n) blocks until   *)
(* some byte has arrived and returns what has arrived, at most n bytes:    *)
(* any number from 1 to n of the bytes of wire[s].  Once the peer has shut *)
(* down it may also return b'', the rest never having been sent.           *)
(***************************************************************************)

Conns == DOMAIN wire

\* the lengths sock.recv(n) may return; empty while the call blocks
RecvSizes(s, n) ==
    IF peer[s] = "open" THEN 1..Min(n, Len(wire[s])) ELSE 0..Min(n, Len(wire[s]))

\* what sock.recv(n) returns when k bytes have arrived
RecvGot(s, k) == SubSeq(wire[s], 1, k)

\* what is left to read after that
RecvRest(s, k) == IF k = 0 THEN << >> ELSE SubSeq(wire[s], k + 1, Len(wire[s]))

\* imei_bytes.decode('ascii') does not raise
IsAscii(b) == \A i \in 1..Len(b) : b[i] < 128

\* the length check without its upper bound
ImeiLengthUnbounded(n) == 0 < n

\* receive_imei, line 81: 0 < imei_length <= 20
ImeiLengthOK(n) == 0 < n /\ n <= 20

\* the preamble left unchecked
PreambleUnchecked(hdr) == TRUE

\* receive_avl_data, line 104: header[:4] == b'\x00\x00\x00\x00'
PreambleOK(hdr) == Slice(hdr, 0, 4) = << 0, 0, 0, 0 >>

\* the length check without its ceiling
DataLengthUnbounded(n) == 0 < n

\* receive_avl_data, line 110: 0 < data_length <= 8192
DataLengthOK(n) == 0 < n /\ n <= 8192

\* a failure that takes every connection down with it
CloseEverySession(s) ==
    /\ pc' = [u \in Conns |-> "closed"]
    /\ sock' = [u \in Conns |-> "closed"]
    /\ wire' = [u \in Conns |-> << >>]
    /\ need' = [u \in Conns |-> 0]
    /\ data' = [u \in Conns |-> << >>]
    /\ avl' = [u \in Conns |-> None]

\* handle_client returns through finally: client_socket.close().  What the
\* socket had not read is discarded, and the locals end with the call.
CloseSession(s) ==
    /\ pc' = [pc EXCEPT ![s] = "closed"]
    /\ sock' = [sock EXCEPT ![s] = "closed"]
    /\ wire' = [wire EXCEPT ![s] = << >>]
    /\ need' = [need EXCEPT ![s] = 0]
    /\ data' = [data EXCEPT ![s] = << >>]
    /\ avl' = [avl EXCEPT ![s] = None]

\* the socket closed after a failed handshake, without the return
ImeiFailedNoReturn(s) ==
    /\ pc' = [pc EXCEPT ![s] = "register"]
    /\ sock' = [sock EXCEPT ![s] = "closed"]
    /\ wire' = [wire EXCEPT ![s] = << >>]
    /\ UNCHANGED << need, data, avl >>

\* handle_client, lines 46-49, receive_imei having returned None:
\* client_socket.close(); return (finally closes once more)
ImeiFailed(s) == CloseSession(s)

\* receive_imei, lines 76-83: recv(2) and the test of the length
RecvImeiLength(s) ==
    /\ pc[s] = "imei_len"
    /\ \E k \in RecvSizes(s, 2) :
         LET length_bytes == RecvGot(s, k) IN
         IF Len(length_bytes) = 2 /\ ImeiLengthOK(Unpack16(length_bytes))
         THEN /\ need' = [need EXCEPT ![s] = Unpack16(length_bytes)]
              /\ pc' = [pc EXCEPT ![s] = "imei_body"]
              /\ wire' = [wire EXCEPT ![s] = RecvRest(s, k)]
              /\ UNCHANGED << sock, data, avl >>
         ELSE ImeiFailed(s)
    /\ nrecv' = [nrecv EXCEPT ![s] = @ + 1]
    /\ UNCHANGED << listenerVars, ioVars, connVars, known_imeis, peer, input, header, imei,
                    sent, decoded >>

\* receive_imei, lines 86-90: recv(imei_length) and the ASCII decoding
RecvImeiBody(s) ==
    /\ pc[s] = "imei_body"
    /\ \E k \in RecvSizes(s, need[s]) :
         LET imei_bytes == RecvGot(s, k) IN
         IF imei_bytes # << >> /\ IsAscii(imei_bytes)
         THEN /\ imei' = [imei EXCEPT ![s] = imei_bytes]
              /\ pc' = [pc EXCEPT ![s] = "register"]
              /\ wire' = [wire EXCEPT ![s] = RecvRest(s, k)]
              /\ UNCHANGED << sock, need, data, avl >>
         ELSE /\ ImeiFailed(s)
              /\ UNCHANGED imei
    /\ nrecv' = [nrecv EXCEPT ![s] = @ + 1]
    /\ UNCHANGED << listenerVars, ioVars, connVars, known_imeis, peer, input, header, sent,
                    decoded >>

\* handle_client, line 53: self.known_imeis.add(imei)
Register(s) ==
    /\ pc[s] = "register"
    /\ known_imeis' = known_imeis \cup {imei[s]}
    /\ pc' = [pc EXCEPT ![s] = "ack_imei"]
    /\ UNCHANGED << listenerVars, ioVars, connVars, sock, wire, peer, input, need, header,
                    imei, data, avl, sent, decoded, nrecv >>

\* handle_client, line 54: client_socket.send(struct.pack("!B", 1))
SendImeiAck(s) ==
    /\ pc[s] = "ack_imei"
    /\ sent' = [sent EXCEPT ![s] = Append(@, Pack8(1))]
    /\ pc' = [pc EXCEPT ![s] = "loop"]
    /\ UNCHANGED << listenerVars, ioVars, connVars, known_imeis, sock, wire, peer, input,
                    need, header, imei, data, avl, decoded, nrecv >>

\* handle_client, line 57: while self.running
LoopTest(s) ==
    /\ pc[s] = "loop"
    /\ IF running
       THEN /\ pc' = [pc EXCEPT ![s] = "header"]
            /\ UNCHANGED << sock, wire, need, data, avl >>
       ELSE CloseSession(s)
    /\ UNCHANGED << listenerVars, ioVars, connVars, known_imeis, peer, input, header, imei,
                    sent, decoded, nrecv >>

\* receive_avl_data, lines 99-112: recv(8), the preamble and the length;
\* handle_client, lines 59-60: break when nothing was returned
RecvHeader(s) ==
    /\ pc[s] = "header"
    /\ \E k \in RecvSizes(s, 8) :
         LET hdr == RecvGot(s, k) IN
         /\ header' = [header EXCEPT ![s] = IF Len(hdr) = 8 THEN hdr ELSE @]
         /\ IF /\ Len(hdr) = 8
               /\ PreambleOK(hdr)
               /\ DataLengthOK(Unpack32(From(hdr, 4)))
            THEN /\ need' = [need EXCEPT ![s] = Unpack32(From(hdr, 4))]
                 /\ pc' = [pc EXCEPT ![s] = "data"]
                 /\ wire' = [wire EXCEPT ![s] = RecvRest(s, k)]
                 /\ UNCHANGED << sock, data, avl >>
            ELSE CloseSession(s)
    /\ nrecv' = [nrecv EXCEPT ![s] = @ + 1]
    /\ UNCHANGED << listenerVars, ioVars, connVars, known_imeis, peer, input, imei, sent,
                    decoded >>

\* receive_avl_data, lines 115-117: recv(data_length)
RecvData(s) ==
    /\ pc[s] = "data"
    /\ \E k \in RecvSizes(s, need[s]) :
         LET got == RecvGot(s, k) IN
         IF Len(got) = need[s]
         THEN /\ data' = [data EXCEPT ![s] = got]
              /\ pc' = [pc EXCEPT ![s] = "crc"]
              /\ wire' = [wire EXCEPT ![s] = RecvRest(s, k)]
              /\ UNCHANGED << sock, need, avl >>
         ELSE CloseSession(s)
    /\ nrecv' = [nrecv EXCEPT ![s] = @ + 1]
    /\ UNCHANGED << listenerVars, ioVars, connVars, known_imeis, peer, input, header, imei,
                    sent, decoded >>

\* receive_avl_data, lines 120-125: recv(4), then parse_avl_data(data);
\* handle_client, lines 59-60: break when nothing was returned
RecvCrc(s) ==
    /\ pc[s] = "crc"
    /\ \E k \in RecvSizes(s, 4) :
         LET crc_bytes == RecvGot(s, k)
             avl_data  == IF Len(crc_bytes) = 4 THEN parse_avl_data(data[s]) ELSE None
         IN  IF avl_data # None
             THEN /\ avl' = [avl EXCEPT ![s] = avl_data]
                  /\ decoded' = [decoded EXCEPT ![s] = Append(@, avl_data)]
                  /\ pc' = [pc EXCEPT ![s] = "ack"]
                  /\ wire' = [wire EXCEPT ![s] = RecvRest(s, k)]
                  /\ UNCHANGED << sock, need, data >>
             ELSE /\ CloseSession(s)
                  /\ UNCHANGED decoded
    /\ nrecv' = [nrecv EXCEPT ![s] = @ + 1]
    /\ UNCHANGED << listenerVars, ioVars, connVars, known_imeis, peer, input, header, imei,
                    sent >>

\* handle_client, line 63: avl_data.get('number_of_data2', 0)
AckCount(avl_data) == avl_data.number_of_data2

\* the ack sent only for a packet that counts some record
SendAckNonEmptyOnly(s) ==
    /\ pc[s] = "ack"
    /\ sent' = [sent EXCEPT ![s] = IF AckCount(avl[s]) > 0
                                    THEN Append(@, Pack32(AckCount(avl[s])))
                                    ELSE @]
    /\ pc' = [pc EXCEPT ![s] = "loop"]
    /\ UNCHANGED << listenerVars, ioVars, connVars, known_imeis, sock, wire, peer, input,
                    need, header, imei, data, avl, decoded, nrecv >>

\* handle_client, line 64: client_socket.send(struct.pack("!I", num_records))
SendAck(s) ==
    /\ pc[s] = "ack"
    /\ sent' = [sent EXCEPT ![s] = Append(@, Pack32(AckCount(avl[s])))]
    /\ pc' = [pc EXCEPT ![s] = "loop"]
    /\ UNCHANGED << listenerVars, ioVars, connVars, known_imeis, sock, wire, peer, input,
                    need, header, imei, data, avl, decoded, nrecv >>

sessionVars == << pc, sock, wire, peer, input, need, header, imei, data, avl, sent,
                  decoded, nrecv >>

(***************************************************************************)
(* The listener: start and stop.                                           *)
(***************************************************************************)

\* start, lines 25-28: the socket is created, bound and listens
StartListen ==
    /\ lpc = "init"
    /\ lsock' = "open"
    /\ lpc' = "bound"
    /\ UNCHANGED << running, ioVars, connVars, known_imeis, sessionVars >>

\* start, line 27: bind raises (the port is taken); the exception leaves
\* start, and self.sock stays as created
BindError ==
    /\ lpc = "init"
    /\ lsock' = "open"
    /\ lpc' = "failed"
    /\ UNCHANGED << running, ioVars, connVars, known_imeis, sessionVars >>

\* start, line 29: self.running = True
SetRunning ==
    /\ lpc = "bound"
    /\ running' = TRUE
    /\ lpc' = "check"
    /\ UNCHANGED << lsock, ioVars, connVars, known_imeis, sessionVars >>

\* start, line 32: while self.running, and line 34: accept is called.  On a
\* socket that stop has closed the call raises at once.
ListenerTest ==
    /\ lpc = "check"
    /\ lpc' = IF ~running THEN "done"
              ELSE IF lsock = "open" THEN "accept" ELSE "except"
    /\ UNCHANGED << running, lsock, ioVars, connVars, known_imeis, sessionVars >>

\* start, lines 34-37: accept returns the next connection, and a thread is
\* started on handle_client for it.  Connections are numbered as accepted.
\* A call that was waiting when stop closed the socket may still return one.
Accept(s) ==
    /\ lpc = "accept"
    /\ pc[s] = "pending"
    /\ \A t \in Conns : t < s => pc[t] # "pending"
    /\ pc' = [pc EXCEPT ![s] = "imei_len"]
    /\ lpc' = "check"
    /\ UNCHANGED << running, lsock, ioVars, connVars, known_imeis, sock, wire, peer, input,
                    need, header, imei, data, avl, sent, decoded, nrecv >>

\* start, line 38: accept, or the start of the thread, raises: the socket
\* was closed under the call, or the process is out of descriptors or threads
AcceptError ==
    /\ lpc = "accept"
    /\ lpc' = "except"
    /\ UNCHANGED << running, lsock, ioVars, connVars, known_imeis, sessionVars >>

\* start, line 39: the error is logged, and the loop goes on
AcceptLogged ==
    /\ lpc = "except"
    /\ lpc' = "check"
    /\ UNCHANGED << running, lsock, ioVars, connVars, known_imeis, sessionVars >>

\* stop, lines 265-269: it may be called from any thread, at any time
Stop ==
    /\ running \/ lsock = "open"
    /\ running' = FALSE
    /\ lsock' = IF lsock = "none" THEN "none" ELSE "closed"
    /\ UNCHANGED << lpc, ioVars, connVars, known_imeis, sessionVars >>

(***************************************************************************)
(* The peers.                                                              *)
(***************************************************************************)

\* the peer of s shuts its side of the connection down
PeerClose(s) ==
    /\ peer[s] = "open"
    /\ peer' = [peer EXCEPT ![s] = "closed"]
    /\ UNCHANGED << listenerVars, ioVars, connVars, known_imeis, pc, sock, wire, input, need,
                    header, imei, data, avl, sent, decoded, nrecv >>

(***************************************************************************)
(* What the devices send.                                                  *)
(***************************************************************************)

\* the most frames a device sends after its identity
MaxFrames == 2

\* an identity frame: length:u16, then the identity
IdentityFrame(id) == << Len(id) \div 256, Len(id) % 256 >> \o id

\* timestampMs = 1700000000000
Timestamp == << 0, 0, 1, 139, 207, 229, 104, 0 >>

\* a timestamp of the year 292278994
LateTimestamp == << 127, 255, 255, 255, 255, 255, 255, 255 >>

GpsFix == << 15, 14, 13, 12, 241, 242, 243, 244, 0, 100, 1, 10, 7, 0, 60 >>

\* an IO block with no entry in any tier
EmptyIO == << 0, 0, 0, 0, 0, 0 >>

\* an IO block with tier counts 1, 0, 1, 0
SomeIO == << 3, 2 >> \o << 1, 21, 3 >> \o << 0 >>
          \o << 1, 199, 1, 2, 3, 4 >> \o << 0 >>

AvlRecord(ts, priority, io) == ts \o << priority >> \o GpsFix \o io

\* codec 8, the declared count, the records, the trailing count
Payload(n, records, trailing) == << 8, n >> \o records \o << trailing >>

\* the 4-byte trailer, which the reader does not verify
Crc == << 0, 0, 18, 52 >>

\* a telemetry frame declaring the length of its payload
TelemetryFrame(payload) == << 0, 0, 0, 0 >> \o Pack32(Len(payload)) \o payload \o Crc

\* a well-formed payload of one record with entries in two tiers
OnePayload == Payload(1, AvlRecord(Timestamp, 1, SomeIO), 1)

\* where OnePayload is cut: in the timestamp, before the priority, in the GPS
\* fix, in the IO header, before a tier count, in a tier entry, before the
\* trailing count
CutPoints == {1, 5, 10, 20, 26, 27, 28, 30, 33, 37, Len(OnePayload) - 1}

ValidFrames ==
    { TelemetryFrame(Payload(0, << >>, 0)),
      TelemetryFrame(Payload(1, AvlRecord(Timestamp, 0, EmptyIO), 1)),
      TelemetryFrame(OnePayload),
      TelemetryFrame(Payload(2, AvlRecord(Timestamp, 0, EmptyIO)
                                \o AvlRecord(Timestamp, 2, SomeIO), 2)) }

\* frames whose trailing count differs from the declared count
MismatchFrames ==
    { TelemetryFrame(Payload(0, << >>, 1)),
      TelemetryFrame(Payload(1, AvlRecord(Timestamp, 0, EmptyIO), 2)) }

\* frames whose payload ends before its records and trailing count do
TruncatedFrames ==
    { TelemetryFrame(SubSeq(OnePayload, 1, k)) : k \in CutPoints }

\* an IO block declaring a total of 9 with tier counts 1, 0, 1, 0
SkewedIO == << 3, 9 >> \o << 1, 21, 3 >> \o << 0 >>
            \o << 1, 199, 1, 2, 3, 4 >> \o << 0 >>

\* a payload of one record with that IO block
SkewedPayload == Payload(1, AvlRecord(Timestamp, 1, SkewedIO), 1)

\* a bad preamble, a length over the ceiling, a length of 0, a timestamp
\* that does not convert, a total that is not the sum of the tier counts
OtherFrames ==
    { << 0, 0, 0, 1 >> \o Pack32(3) \o Payload(0, << >>, 0) \o Crc,
      << 0, 0, 0, 0 >> \o Pack32(8193) \o Payload(0, << >>, 0) \o Crc,
      << 0, 0, 0, 0 >> \o Pack32(0) \o Crc,
      TelemetryFrame(Payload(1, AvlRecord(LateTimestamp, 0, EmptyIO), 1)),
      TelemetryFrame(SkewedPayload) }

AllFrames == ValidFrames \cup MismatchFrames \cup TruncatedFrames \cup OtherFrames

\* frames after which a session reads on
LeadFrames == { TelemetryFrame(Payload(0, << >>, 0)),
                TelemetryFrame(Payload(0, << >>, 1)) }

\* sequences of at most n lead frames, joined
RECURSIVE Leads(_)
Leads(n) == IF n = 0 THEN { << >> }
            ELSE Leads(n - 1) \cup { l \o f : l \in Leads(n - 1), f \in LeadFrames }

\* the identity "1234"
GoodIdentity == << 49, 50, 51, 52 >>

\* identity frames receive_imei refuses: a length of 0, a length of 21, bytes
\* that are not ASCII
BadIdentityFrames ==
    { << 0, 0 >>,
      << 0, 21 >> \o [i \in 1..21 |-> 48],
      IdentityFrame(<< 49, 200 >>) }

\* sequences of at most n empty well-formed frames, joined
RECURSIVE ValidLeads(_)
ValidLeads(n) ==
    IF n = 0 THEN { << >> }
    ELSE ValidLeads(n - 1)
         \cup { l \o TelemetryFrame(Payload(0, << >>, 0)) : l \in ValidLeads(n - 1) }

\* a valid identity frame, then only well-formed frames
ValidStreams ==
    { IdentityFrame(GoodIdentity) \o l \o f : l \in ValidLeads(MaxFrames - 1),
                                              f \in ValidFrames }

\* the byte streams of a device: an identity frame, then up to MaxFrames frames
Streams ==
    { IdentityFrame(GoodIdentity) \o l \o f : l \in Leads(MaxFrames - 1), f \in AllFrames }
    \cup { b \o f : b \in BadIdentityFrames, f \in ValidFrames }

(***************************************************************************)
(* The specification of one connection.                                    *)
(***************************************************************************)

InitServer(conns) ==
    /\ running = FALSE
    /\ lsock = "none"
    /\ lpc = "init"
    /\ known_imeis = {}
    /\ pc = [s \in conns |-> "pending"]
    /\ sock = [s \in conns |-> "open"]
    /\ peer = [s \in conns |-> "open"]
    /\ need = [s \in conns |-> 0]
    /\ header = [s \in conns |-> << >>]
    /\ imei = [s \in conns |-> NoImei]
    /\ data = [s \in conns |-> << >>]
    /\ avl = [s \in conns |-> None]
    /\ sent = [s \in conns |-> << >>]
    /\ decoded = [s \in conns |-> << >>]
    /\ nrecv = [s \in conns |-> 0]
    /\ ioOut = None

Init ==
    /\ InitServer({1})
    /\ ioIn = None
    /\ conn = << >>
    /\ packets = << >>
    /\ wire \in [{1} -> Streams]
    /\ input = wire

Session(s) ==
    \/ RecvImeiLength(s)
    \/ RecvImeiBody(s)
    \/ Register(s)
    \/ SendImeiAck(s)
    \/ LoopTest(s)
    \/ RecvHeader(s)
    \/ RecvData(s)
    \/ RecvCrc(s)
    \/ SendAck(s)

Next ==
    \/ StartListen
    \/ BindError
    \/ SetRunning
    \/ ListenerTest
    \/ \E s \in Conns : Accept(s)
    \/ AcceptError
    \/ AcceptLogged
    \/ Stop
    \/ \E s \in Conns : Session(s)
    \/ \E s \in Conns : PeerClose(s)

Spec == Init /\ [][Next]_vars

\* the thread of handle_client is scheduled while it has a step to take
SpecLive == Init /\ [][Next]_vars /\ WF_vars(Session(1))

(***************************************************************************)
(* parse_io_element on well-formed IO blocks.                              *)
(***************************************************************************)

\* the most entries in one tier
MaxTier == 2

\* a W-byte big-endian value from its numeral
PadTo(v, W) == [i \in 1..(W - Len(v)) |-> 0] \o v

\* the entries a tier of width W is filled from: a small value, which is
\* padded with zero bytes, and one that takes all W bytes, each different
EntryPool(W) ==
    { [id |-> 17, value |-> << 7 >>],
      [id |-> 239, value |-> [i \in 1..W |-> 200 + i]] }

\* the tiers of width W with at most n entries
RECURSIVE TiersUpTo(_, _)
TiersUpTo(W, n) ==
    IF n = 0 THEN { << >> }
    ELSE TiersUpTo(W, n - 1)
         \cup { Append(t, e) : t \in { u \in TiersUpTo(W, n - 1) : Len(u) = n - 1 },
                               e \in EntryPool(W) }

RECURSIVE EncodeEntries(_, _)
EncodeEntries(entries, W) ==
    IF entries = << >> THEN << >>
    ELSE << Head(entries).id >> \o PadTo(Head(entries).value, W)
         \o EncodeEntries(Tail(entries), W)

\* tierCount:u8, then the entries
EncodeTier(entries, W) == << Len(entries) >> \o EncodeEntries(entries, W)

\* the bytes of an IO block, followed by what follows it in its payload
EncodeIO(b) ==
    << b.event_io_id, b.total >>
    \o EncodeTier(b.tiers[1], 1) \o EncodeTier(b.tiers[2], 2)
    \o EncodeTier(b.tiers[3], 4) \o EncodeTier(b.tiers[4], 8)
    \o b.rest

\* the well-formed IO blocks: each tier count chosen on its own
IOBlocks ==
    { [ event_io_id |-> 5,
        total       |-> Len(t1) + Len(t2) + Len(t4) + Len(t8),
        tiers       |-> << t1, t2, t4, t8 >>,
        rest        |-> r ] :
      t1 \in TiersUpTo(1, MaxTier), t2 \in TiersUpTo(2, MaxTier),
      t4 \in TiersUpTo(4, MaxTier), t8 \in TiersUpTo(8, MaxTier),
      r \in { << >>, << 1 >> } }

\* parse_io_element is applied to the bytes of ioIn
ParseIO ==
    /\ ioOut = None
    /\ ioOut' = parse_io_element(EncodeIO(ioIn))
    /\ UNCHANGED << ioIn, connVars, listenerVars, known_imeis, sessionVars >>

InitIO ==
    /\ InitServer({})
    /\ wire = << >>
    /\ input = << >>
    /\ conn = << >>
    /\ packets = << >>
    /\ ioIn \in IOBlocks

NextIO == ParseIO

SpecIO == InitIO /\ [][NextIO]_vars


(***************************************************************************)
(* TeltonikaDecoder.decode_io (teltonika/decoder.py) on well-formed IO     *)
(* blocks.                                                                 *)
(***************************************************************************)

\* raise ParsingError(...)
ParsingError == [raised |-> "ParsingError"]

\* a for loop of decode_io: n entries of one id byte and one value byte,
\* whatever the tier; ok is FALSE when a read runs past the buffer
RECURSIVE DecodeEntries(_, _, _, _)
DecodeEntries(buf, offset, n, acc) ==
    IF n = 0 THEN [ok |-> TRUE, entries |-> acc, offset |-> offset]
    ELSE IF ~Has(buf, offset) \/ ~Has(buf, offset + 1)
    THEN [ok |-> FALSE, entries |-> acc, offset |-> offset]
    ELSE DecodeEntries(buf, offset + 2, n - 1,
             Append(acc, [ id    |-> At(buf, offset),
                           value |-> Numeral(<< At(buf, offset + 1) >>) ]))

\* a tier of decode_io: the count byte is read, the offset moves on by step,
\* and the loop runs n1 times
DecodeTier(buf, offset, step, n1) ==
    IF ~Has(buf, offset) THEN [ok |-> FALSE, entries |-> << >>, offset |-> offset]
    ELSE DecodeEntries(buf, offset + step, n1, << >>)

\* decode_io: (io, offset), or ParsingError after any exception
decode_io(buf) ==
    IF ~Has(buf, 0) \/ ~Has(buf, 1) \/ ~Has(buf, 2) THEN ParsingError
    ELSE LET n1 == At(buf, 2)
             t1 == DecodeTier(buf, 2, 1, n1)
             t2 == IF t1.ok THEN DecodeTier(buf, t1.offset, 2, n1) ELSE t1
             t4 == IF t2.ok THEN DecodeTier(buf, t2.offset, 4, n1) ELSE t2
             t8 == IF t4.ok THEN DecodeTier(buf, t4.offset, 8, n1) ELSE t4
         IN  IF ~t8.ok THEN ParsingError
             ELSE [ io |-> [ event_id    |-> At(buf, 0),
                             elements_1b |-> t1.entries,
                             elements_2b |-> t2.entries,
                             elements_4b |-> t4.entries,
                             elements_8b |-> t8.entries ],
                    offset |-> t8.offset ]

\* decode_io is applied to the bytes of ioIn
DecodeIO ==
    /\ ioOut = None
    /\ ioOut' = decode_io(EncodeIO(ioIn))
    /\ UNCHANGED << ioIn, connVars, listenerVars, known_imeis, sessionVars >>

NextDec == DecodeIO

SpecDec == InitIO /\ [][NextDec]_vars

(***************************************************************************)
(* TeltonikaConnection.receive_packet (teltonika/connection.py), called    *)
(* on a connection to which a device has sent frames back to back.  The    *)
(* device stays connected.                                                 *)
(***************************************************************************)

\* protocol.py
PACKET_START == << 0, 0, 0, 0 >>
MAX_PACKET_SIZE == 8192

\* the calls of receive_packet made on the connection
MaxCalls == 2

\* raise ConnectionError(...)
ConnectionError == [raised |-> "ConnectionError"]

\* return data
Returned(payload) == [data |-> payload]

\* header.startswith(PACKET_START)
StartsWith(b, prefix) ==
    Len(b) >= Len(prefix) /\ SubSeq(b, 1, Len(prefix)) = prefix

\* one call: recv(8) returns k1 bytes; the preamble and the length are
\* tested; recv(length) returns k2 bytes, which are the payload if they are
\* all of it.  Any exception leaves as ConnectionError.
ReceivePacket ==
    /\ Len(packets) < MaxCalls
    /\ \E k1 \in 1..Min(8, Len(conn)) :
         LET hdr    == SubSeq(conn, 1, k1)
             rest   == SubSeq(conn, k1 + 1, Len(conn))
             length == Unpack32(From(hdr, 4))
         IN  IF \/ ~StartsWith(hdr, PACKET_START)
                \/ Len(From(hdr, 4)) # 4
                \/ length > MAX_PACKET_SIZE
             THEN /\ packets' = Append(packets, ConnectionError)
                  /\ conn' = rest
             ELSE IF length = 0
             THEN /\ packets' = Append(packets, Returned(<< >>))
                  /\ conn' = rest
             ELSE \E k2 \in 1..Min(length, Len(rest)) :
                    /\ packets' = Append(packets,
                                     IF k2 = length THEN Returned(SubSeq(rest, 1, k2))
                                     ELSE ConnectionError)
                    /\ conn' = SubSeq(rest, k2 + 1, Len(rest))
    /\ UNCHANGED << listenerVars, ioVars, known_imeis, sessionVars >>

\* two well-formed frames, one after the other
ConnStreams == { f \o g : f \in ValidFrames, g \in ValidFrames }

InitConn ==
    /\ InitServer({})
    /\ wire = << >>
    /\ input = << >>
    /\ ioIn = None
    /\ packets = << >>
    /\ conn \in ConnStreams

NextConn == ReceivePacket

SpecConn == InitConn /\ [][NextConn]_vars

(***************************************************************************)
(* Concurrent sessions: start() hands every accepted connection to a       *)
(* thread of its own running handle_client; the threads share known_imeis  *)
(* and the running flag only.                                              *)
(***************************************************************************)

\* the connections the listener is offered
MaxSessions == 2

\* the identity of device s, one ASCII digit
DeviceIdentity(s) == << 48 + s >>

\* a record of device s: its priority byte carries s
DeviceRecord(s) == AvlRecord(Timestamp, s, SomeIO)

\* a well-formed frame of n records of device s
DeviceFrame(s, n) ==
    TelemetryFrame(Payload(n, IF n = 1 THEN DeviceRecord(s)
                              ELSE DeviceRecord(s) \o DeviceRecord(s), n))

\* the record counts of the frames of a device: 1 to MaxFrames frames of
\* 2, 1, 2, ... records
Scripts == { [i \in 1..k |-> 1 + (i % 2)] : k \in 1..MaxFrames }

RECURSIVE ScriptBytes(_, _)
ScriptBytes(s, script) ==
    IF script = << >> THEN << >>
    ELSE DeviceFrame(s, Head(script)) \o ScriptBytes(s, Tail(script))

RECURSIVE ScriptAcks(_)
ScriptAcks(script) ==
    IF script = << >> THEN << >>
    ELSE << Pack32(Head(script)) >> \o ScriptAcks(Tail(script))

\* the valid stream of device s for a script
DeviceStream(s, script) == IdentityFrame(DeviceIdentity(s)) \o ScriptBytes(s, script)

InitConc ==
    /\ InitServer(1..MaxSessions)
    /\ ioIn = None
    /\ conn = << >>
    /\ packets = << >>
    /\ \E f \in [1..MaxSessions -> Scripts] :
           wire = [s \in 1..MaxSessions |-> DeviceStream(s, f[s])]
    /\ input = wire

SpecConc == InitConc /\ [][Next]_vars

(***************************************************************************)
(* Concurrent sessions of which some fail: device s sends its identity and *)
(* then, by its number, a frame and a frame with a bad preamble, or a      *)
(* frame whose payload is cut short, or it presents an identity that is    *)
(* not ASCII.                                                              *)
(***************************************************************************)

\* a frame of device s whose preamble is not zero
BadPreambleFrame(s) ==
    << 0, 0, 0, s >> \o Pack32(3) \o Payload(0, << >>, 0) \o Crc

\* a frame of device s whose payload ends inside the GPS fix of its record
CutFrame(s) ==
    TelemetryFrame(SubSeq(Payload(1, DeviceRecord(s), 1), 1, 20))

FaultyStream(s) ==
    CASE s % 3 = 1 -> IdentityFrame(DeviceIdentity(s)) \o DeviceFrame(s, 1)
                      \o BadPreambleFrame(s)
      [] s % 3 = 2 -> IdentityFrame(DeviceIdentity(s)) \o CutFrame(s)
      [] OTHER     -> IdentityFrame(<< 200 + s >>) \o DeviceFrame(s, 1)

InitFaulty ==
    /\ InitServer(1..MaxSessions)
    /\ ioIn = None
    /\ conn = << >>
    /\ packets = << >>
    /\ wire = [s \in 1..MaxSessions |-> FaultyStream(s)]
    /\ input = wire

SpecFaulty == InitFaulty /\ [][Next]_vars

(***************************************************************************)
(* The states of a session (spec section 4.5), from where handle_client is.*)
(***************************************************************************)

SessionState(p) ==
    CASE p = "pending" -> "NotAccepted"
      [] p \in {"imei_len", "imei_body", "register", "ack_imei"} -> "AwaitingIdentity"
      [] p \in {"loop", "header", "data", "crc", "ack"} -> "Active"
      [] OTHER -> "Closed"

StateRank(p) ==
    CASE SessionState(p) = "NotAccepted" -> 0
      [] SessionState(p) = "AwaitingIdentity" -> 1
      [] SessionState(p) = "Active" -> 2
      [] OTHER -> 3

\* the telemetry acks of s: what it sent after the identity ack
TelemetryAcks(s) == Tail(sent[s])

(***************************************************************************)
(* C1: every telemetry ack carries the number of records of its frame that *)
(* were decoded without error: the i-th ack is the 4-byte count of the     *)
(* records of the i-th decoded packet, none of which has a GPS fix or an   *)
(* IO block that failed to parse.                                          *)
(***************************************************************************)
C1_AckCountsDecodedRecords ==
    \A s \in Conns : \A i \in 1..Len(decoded[s]) :
        Len(sent[s]) >= i + 1 =>
            /\ TelemetryAcks(s)[i] = Pack32(Len(decoded[s][i].records))
            /\ \A r \in 1..Len(decoded[s][i].records) :
                   /\ decoded[s][i].records[r].gps # None
                   /\ decoded[s][i].records[r].io # None

(***************************************************************************)
(* C2: a payload whose trailing count differs from its declared count is   *)
(* rejected: parse_avl_data yields no packet for it, so no packet a        *)
(* session decoded (and acknowledges) has two different counts.            *)
(***************************************************************************)
C2_MismatchRejected ==
    \A s \in Conns : \A i \in 1..Len(decoded[s]) :
        decoded[s][i].number_of_data1 = decoded[s][i].number_of_data2

(***************************************************************************)
(* C3: a payload that ends before its declared records are complete fails  *)
(* to decode and closes the session.  A record whose GPS fix or IO block is *)
(* None was read past the end of its payload, so no decoded packet holds    *)
(* one, and a session fed a frame cut short sends no telemetry ack.         *)
(***************************************************************************)
CutShortStreams ==
    { IdentityFrame(GoodIdentity) \o f : f \in TruncatedFrames }

C3_TruncatedPayloadRejected ==
    \A s \in Conns :
        /\ input[s] \in CutShortStreams => Len(sent[s]) <= 1
        /\ \A i \in 1..Len(decoded[s]) : \A r \in 1..Len(decoded[s][i].records) :
               decoded[s][i].records[r].io # None

(***************************************************************************)
(* C4: the frame reader fails only if the source closes early: a session   *)
(* that has read its whole identity and is fed well-formed frames only is  *)
(* not closed while its peer is still connected and the server runs,       *)
(* however the transport cuts the frames.                                  *)
(***************************************************************************)
C4_ChunkedFrameAcknowledged ==
    \A s \in Conns :
        ( /\ input[s] \in ValidStreams
          /\ imei[s] = GoodIdentity
          /\ peer[s] = "open"
          /\ running )
        => pc[s] # "closed"

(***************************************************************************)
(* C5: a session moves only forward, AwaitingIdentity -> Active -> Closed  *)
(* or AwaitingIdentity -> Closed; Closed is terminal and has released the  *)
(* socket; once the socket is closed the session neither reads from it nor *)
(* sends on it.                                                            *)
(***************************************************************************)
C5_SessionLinear ==
    [][ \A s \in Conns :
          /\ StateRank(pc'[s]) >= StateRank(pc[s])
          /\ SessionState(pc[s]) = "AwaitingIdentity"
               => SessionState(pc'[s]) \in {"AwaitingIdentity", "Active", "Closed"}
          /\ SessionState(pc[s]) = "NotAccepted"
               => SessionState(pc'[s]) \in {"NotAccepted", "AwaitingIdentity"}
          /\ SessionState(pc'[s]) = "Closed" => sock'[s] = "closed"
          /\ sock[s] = "closed"
               => /\ sock'[s] = "closed"
                  /\ nrecv'[s] = nrecv[s]
                  /\ sent'[s] = sent[s] ]_vars

\* a session that was Active is Closed, its socket released
C5_Witness ==
    \E s \in Conns : pc[s] = "closed" /\ sock[s] = "closed" /\ Len(sent[s]) >= 2

(***************************************************************************)
(* C6: a failed handshake closes the session at once.  A session holds no  *)
(* identity unless it read a length in 1..20 and ASCII bytes; while it     *)
(* holds none it has sent nothing, is not Active and has read no telemetry *)
(* frame; and the registry holds only identities that sessions hold.       *)
(***************************************************************************)
DeclaredImeiLength(stream) == Unpack16(SubSeq(stream, 1, 2))

C7_OversizedRejected ==
    [][ \A s \in Conns :
          /\ ( /\ pc[s] = "header" /\ nrecv'[s] = nrecv[s] + 1
               /\ Len(wire[s]) >= 8
               /\ Unpack32(SubSeq(wire[s], 5, 8)) > 8192 )
             => /\ pc'[s] = "closed" /\ sock'[s] = "closed"
                /\ sent'[s] = sent[s]
                /\ decoded'[s] = decoded[s]
          /\ pc'[s] \in {"data", "crc"} => need'[s] <= 8192
          /\ pc[s] = "closed"
             => pc'[s] = "closed" /\ nrecv'[s] = nrecv[s] /\ sent'[s] = sent[s] ]_vars

\* a session closed on a well-formed header that declares 8193 bytes
C7_Witness ==
    \E s \in Conns :
        /\ pc[s] = "closed"
        /\ header[s] = << 0, 0, 0, 0 >> \o Pack32(8193)
        /\ nrecv[s] = 3 /\ sent[s] = << Pack8(1) >>

(***************************************************************************)
(* C8: a frame whose first 4 bytes are not all zero is not resynchronized: *)
(* the read of the header of such a frame closes the session without       *)
(* sending, and the closed session reads no further byte and sends no ack. *)
(***************************************************************************)
C8_BadPreambleCloses ==
    [][ \A s \in Conns :
          /\ ( /\ pc[s] = "header" /\ nrecv'[s] = nrecv[s] + 1
               /\ Len(wire[s]) >= 4
               /\ SubSeq(wire[s], 1, 4) # << 0, 0, 0, 0 >> )
             => /\ pc'[s] = "closed" /\ sock'[s] = "closed"
                /\ sent'[s] = sent[s]
                /\ decoded'[s] = decoded[s]
          /\ pc[s] = "closed"
             => /\ pc'[s] = "closed" /\ nrecv'[s] = nrecv[s]
                /\ sent'[s] = sent[s] /\ header'[s] = header[s] ]_vars

\* a session closed on a whole header whose preamble is 00 00 00 01
C8_Witness ==
    \E s \in Conns :
        /\ pc[s] = "closed"
        /\ Len(header[s]) = 8 /\ SubSeq(header[s], 1, 4) = << 0, 0, 0, 1 >>
        /\ nrecv[s] = 3 /\ sent[s] = << Pack8(1) >>

(***************************************************************************)
(* C9: for every well-formed IO block, whatever its four tier counts,      *)
(* parse_io_element yields in each tier exactly the entries encoded there, *)
(* with their W-byte big-endian values, and returns as bytes consumed      *)
(* 2 + the sum over W in {1, 2, 4, 8} of (1 + c_W * (1 + W)).              *)
(***************************************************************************)
ExpectedConsumed(tiers) ==
    2 + (1 + Len(tiers[1]) * 2) + (1 + Len(tiers[2]) * 3)
      + (1 + Len(tiers[3]) * 5) + (1 + Len(tiers[4]) * 9)

C9_TiersIndependent ==
    ioOut # None =>
        /\ ioOut.io # None
        /\ ioOut.io.event_io_id = ioIn.event_io_id
        /\ ioOut.io.elements.b1 = ioIn.tiers[1]
        /\ ioOut.io.elements.b2 = ioIn.tiers[2]
        /\ ioOut.io.elements.b4 = ioIn.tiers[3]
        /\ ioOut.io.elements.b8 = ioIn.tiers[4]
        /\ ioOut.offset = ExpectedConsumed(ioIn.tiers)

\* a block with tier counts 2, 0, 1, 2 has been decoded
C9_Witness ==
    /\ ioOut # None
    /\ ioIn # None
    /\ Len(ioIn.tiers[1]) = 2 /\ Len(ioIn.tiers[2]) = 0
    /\ Len(ioIn.tiers[3]) = 1 /\ Len(ioIn.tiers[4]) = 2
    /\ ioOut.offset = 33

(***************************************************************************)
(* C10: with several sessions running concurrently, each fed a valid       *)
(* identity and a valid stream of frames, every session sends the identity *)
(* ack and then one correct ack per frame of its own, and decodes records  *)
(* of its own device only: what a session has sent is at all times a       *)
(* prefix of the acks its own input calls for, and a session that has      *)
(* ended while its peer is connected and the server runs has sent them all.*)
(***************************************************************************)
ExpectedAcks(s) ==
    LET script == CHOOSE f \in Scripts : input[s] = DeviceStream(s, f)
    IN  << Pack8(1) >> \o ScriptAcks(script)

IsPrefix(a, b) == Len(a) <= Len(b) /\ a = SubSeq(b, 1, Len(a))

\* what s sent, decoded and registered follows from the input of s alone
SessionsIsolated ==
    /\ \A s \in Conns :
          /\ IsPrefix(sent[s], ExpectedAcks(s))
          /\ imei[s] \in {NoImei, DeviceIdentity(s)}
          /\ \A i \in 1..Len(decoded[s]) : \A r \in 1..Len(decoded[s][i].records) :
                 decoded[s][i].records[r].priority = s
    /\ known_imeis \subseteq { DeviceIdentity(s) : s \in Conns }

C10_ConcurrentSessionsAcked ==
    /\ SessionsIsolated
    /\ \A s \in Conns :
          (pc[s] = "closed" /\ peer[s] = "open" /\ running)
          => sent[s] = ExpectedAcks(s)

\* two sessions are at work at once, one of them having acknowledged a frame
ConcurrentAtWork ==
    \E s, u \in Conns :
        /\ s # u
        /\ Len(sent[s]) >= 2
        /\ SessionState(pc[u]) = "Active"
        /\ SessionState(pc[s]) = "Active"

(***************************************************************************)
(* C11: a framing or decoding failure in one session closes only that      *)
(* session.  The step that closes a session leaves the state, the socket,  *)
(* the unread bytes, the pending ack and the sent acks of every other      *)
(* session as they were, and leaves the listener where it was; the accept  *)
(* loop ends only once stop has cleared running.                           *)
(***************************************************************************)
C11_FailureIsolated ==
    [][ /\ \A s \in Conns :
              (pc[s] # "closed" /\ pc'[s] = "closed")
              => /\ \A u \in Conns \ {s} :
                       /\ pc'[u] = pc[u]
                       /\ sock'[u] = sock[u]
                       /\ wire'[u] = wire[u]
                       /\ avl'[u] = avl[u]
                       /\ sent'[u] = sent[u]
                       /\ decoded'[u] = decoded[u]
                 /\ UNCHANGED << listenerVars, known_imeis >>
        /\ (lpc # "done" /\ lpc' = "done") => ~running ]_vars

\* session 1 was closed by the bad preamble of its second frame, session 2 by
\* its cut payload, the server runs on and the listener waits in accept
C11_Witness ==
    /\ pc[1] = "closed" /\ peer[1] = "open" /\ Len(sent[1]) = 2 /\ nrecv[1] = 6
    /\ pc[2] = "closed" /\ peer[2] = "open" /\ Len(sent[2]) = 1 /\ nrecv[2] = 5
    /\ running /\ lsock = "open" /\ lpc = "accept"

(***************************************************************************)
(* C12: a bind or accept error is fatal to the listener, a session's error *)
(* is not.  After bind raises, start has ended for good; after accept      *)
(* raises on the listening socket, start does not go on looping: it is back *)
(* at its loop test only to leave the loop; and no step of a session moves *)
(* the listener.                                                           *)
(***************************************************************************)
C12_ListenerErrorsFatal ==
    [][ /\ (lpc = "init" /\ lpc' # "bound") => lpc' \in {"init", "failed"}
        /\ lpc = "failed" => lpc' = "failed"
        /\ (lpc = "except" /\ lpc' # "except" /\ lsock = "open")
           => (lpc' = "check" => ~running')
        /\ pc' # pc => (lpc' = lpc \/ lpc = "accept") ]_vars

(***************************************************************************)
(* C13: a session blocked in a read whose peer has closed the stream, or   *)
(* whose server has been stopped (stop has closed the listening socket),   *)
(* gets out of the read and ends Closed with its socket released.          *)
(***************************************************************************)
InRead(s) == pc[s] \in {"imei_len", "imei_body", "header", "data", "crc"}

C13_BlockedReadReturns ==
    (InRead(1) /\ (peer[1] = "closed" \/ lsock = "closed"))
    ~> (pc[1] = "closed" /\ sock[1] = "closed")

\* the half of C13 about the peer: once the peer has closed, the read returns
PeerCloseEndsSession ==
    (InRead(1) /\ peer[1] = "closed") ~> (pc[1] = "closed" /\ sock[1] = "closed")

(***************************************************************************)
(* C14: the registry is insert-only and consistent.  Over every step no    *)
(* element leaves known_imeis; it holds the identity of every session that *)
(* has sent its identity ack; and it holds nothing but identities that a   *)
(* device presented in its identity frame to a session that got past the   *)
(* handshake.                                                              *)
(***************************************************************************)
\* the identity the identity frame at the head of a stream presents
PresentedIdentity(stream) == SubSeq(stream, 3, 2 + DeclaredImeiLength(stream))

\* the sessions that got past the handshake
PastHandshake == { s \in Conns : imei[s] # NoImei }

\* the registry loses nothing and holds every acknowledged identity
RegistryInsertOnly ==
    [][ /\ known_imeis \subseteq known_imeis'
        /\ \A s \in Conns : Len(sent'[s]) >= 1 => imei'[s] \in known_imeis' ]_vars

C14_RegistryConsistent ==
    [][ /\ known_imeis \subseteq known_imeis'
        /\ \A s \in Conns : Len(sent'[s]) >= 1 => imei'[s] \in known_imeis'
        /\ known_imeis' \subseteq
               { PresentedIdentity(input[s]) : s \in PastHandshake' } ]_vars

C16_IdentityWholeLength ==
    \A s \in Conns :
        imei[s] # NoImei
        => /\ DeclaredImeiLength(input[s]) \in 1..20
           /\ Len(imei[s]) = DeclaredImeiLength(input[s])
           /\ imei[s] = PresentedIdentity(input[s])

(***************************************************************************)
(* C17: receive_packet consumes one whole frame, its trailer included.     *)
(* When the first call has returned a payload, what is left unread is the  *)
(* second frame, from its first byte; and when the second call has         *)
(* returned too, both payloads have been returned and nothing is left.     *)
(***************************************************************************)
C17_TrailerConsumed ==
    /\ (Len(packets) = 1 /\ packets[1] # ConnectionError) => conn \in ValidFrames
    /\ (Len(packets) = 2 /\ packets[1] # ConnectionError /\ packets[2] # ConnectionError)
       => conn = << >>

(***************************************************************************)
(* C18: decode_io reads a fresh count byte before each of the four tiers   *)
(* and uses that tier's own count and width.  For every well-formed IO     *)
(* block it returns as many entries in each tier as the tier's count byte  *)
(* says, and as offset 2 + the sum over W in {1, 2, 4, 8} of               *)
(* (1 + c_W * (1 + W)), where the trailing count byte is.                  *)
(***************************************************************************)
C18_DecodeIoTiersIndependent ==
    ioOut # None =>
        /\ ioOut # ParsingError
        /\ Len(ioOut.io.elements_1b) = Len(ioIn.tiers[1])
        /\ Len(ioOut.io.elements_2b) = Len(ioIn.tiers[2])
        /\ Len(ioOut.io.elements_4b) = Len(ioIn.tiers[3])
        /\ Len(ioOut.io.elements_8b) = Len(ioIn.tiers[4])
        /\ ioOut.offset = ExpectedConsumed(ioIn.tiers)

(***************************************************************************)
(* C19: an IO block whose declared total differs from the sum of its tier  *)
(* counts is not rejected.  The payload with such a block that a session   *)
(* has read decodes to a packet, not to None; the packet has the entries   *)
(* the tier counts delimit and carries the declared total; and the ack the *)
(* session sends for it is the count of the packet, as for any other.      *)
(***************************************************************************)
SkewedPacket ==
    [ codec           |-> 8,
      number_of_data1 |-> 1,
      number_of_data2 |-> 1,
      records         |->
          << [ timestamp |-> Numeral(Timestamp),
               priority  |-> 1,
               gps       |-> parse_gps_element(GpsFix),
               io        |-> [ event_io_id |-> 3,
                               total       |-> 9,
                               elements    |->
                                   [ b1 |-> << [id |-> 21, value |-> << 3 >>] >>,
                                     b2 |-> << >>,
                                     b4 |-> << [id |-> 199, value |-> << 1, 2, 3, 4 >>] >>,
                                     b8 |-> << >> ] ] ] >> ]

SkewedStream == IdentityFrame(GoodIdentity) \o TelemetryFrame(SkewedPayload)

C19_TotalMismatchSoft ==
    \A s \in Conns :
        /\ (pc[s] = "crc" /\ data[s] = SkewedPayload)
           => parse_avl_data(data[s]) = SkewedPacket
        /\ (pc[s] = "ack" /\ data[s] = SkewedPayload) => avl[s] = SkewedPacket
        /\ (input[s] = SkewedStream /\ Len(sent[s]) >= 2)
           => /\ sent[s][2] = Pack32(1)
              /\ decoded[s][1] = SkewedPacket

\* the frame with the skewed total has been acknowledged
C19_Witness ==
    /\ input[1] = SkewedStream
    /\ Len(sent[1]) = 2
    /\ decoded[1][1].records[1].io.total = 9
    /\ pc[1] = "header"

(***************************************************************************)
(* C20: once stop has run (it has cleared running and closed the listening *)
(* socket), a session that comes to its loop test leaves the loop, so that *)
(* it sends no ack but that of the frame it was reading, and start, when   *)
(* it comes to its loop test, leaves the loop, so that no accept is        *)
(* attempted but the one that was under way.                               *)
(***************************************************************************)
C20_StopBoundsWork ==
    [][ lsock = "closed"
        => /\ \A s \in Conns : pc[s] = "loop" => pc'[s] \in {"loop", "closed"}
           /\ lpc = "check" => lpc' \in {"check", "done"} ]_vars

\* the same of a stop that is called once start has set running
StopAfterStartBoundsWork ==
    [][ (~running /\ lpc \notin {"init", "bound", "failed"})
        => /\ ~running'
           /\ \A s \in Conns : pc[s] = "loop" => pc'[s] \in {"loop", "closed"}
           /\ lpc = "check" => lpc' \in {"check", "done"}
           /\ lpc = "done" => lpc' = "done" ]_vars

====
